---- MODULE Spec2Model ----
(***************************************************************************)
(* Model of verify_reset_button.py: one asynchronous main() that, inside   *)
(* an `async with async_playwright()` block, launches Chromium, opens a    *)
(* page, navigates to file://<cwd>/index.html, waits for #main-menu to be  *)
(* visible, screenshots the element located by #main-menu into             *)
(* reset-button.png, prints a confirmation and closes the browser.         *)
(*                                                                         *)
(* The program's state is the position of main() (pc), the resources it    *)
(* holds (driver session, browser process, page), the page's DOM as far as *)
(* the selector #main-menu sees it, the output file and standard output.   *)
(* The environment (file system, browser engine, page scripts) is chosen   *)
(* in Init and by the PageMutates action.  The script may be run again     *)
(* after it exits (Rerun); the only thing one run leaves to the next is    *)
(* the output file.                                                        *)
(***************************************************************************)
EXTENDS Integers, Sequences, FiniteSets, TLC

\* ---------------------------------------------------------------- bounds
\* Ticks of the library's default timeout (30 s in the library), abstracted.
DefaultTimeout == 2
\* How many times in succession the script is run.
MaxRuns == 2
\* How many times the page's scripts change #main-menu in one run.
MaxMutations == 2

\* ------------------------------------------------------- program constants
\* src line 17 / 21: the selector; the elements of the page that can carry
\* id="main-menu", in document order.
Elements == {1, 2}
\* src line 20
screenshot_path == "reset-button.png"
\* src line 23: f"Screenshot saved to {screenshot_path}" as its two pieces.
Message == <<"Screenshot saved to ", screenshot_path>>

None == [kind |-> "none"]
Absent == [kind |-> "absent"]

\* The order of the awaited calls in main(), lines 6-25.
StepOrder ==
    <<"session", "launch", "new_page", "goto", "wait", "screenshot", "print", "close">>

Steps == {StepOrder[i] : i \in 1..Len(StepOrder)}

ElemStates == {"absent", "hidden", "visible"}
\* Renderings of index.html: the bounding box of each candidate element.
RenderSet == {[e \in Elements |-> <<200, 100>>],
              [e \in Elements |-> IF e = 1 THEN <<200, 100>> ELSE <<320, 240>>]}
PageScripts == {"none", "reveal", "any"}

VARIABLES
    \* environment, fixed for the behaviour
    indexExists,   \* index.html exists in the working directory
    launchable,    \* a Chromium the engine can launch is installed
    writable,      \* reset-button.png can be written
    pageScript,    \* what the page's scripts do to #main-menu after load
    initialDom,    \* the DOM index.html loads with
    render,        \* the bounding box index.html gives each element
    faultAt,       \* the awaited call, if any, that the engine/OS fails
    \* one run of main()
    pc, session, browser, page, dom, elapsed, waitHandle, shot, failed,
    log, spawned, pagesOpened, writes, stdout, exitCode,
    mutations,     \* changes the page's scripts have made in this run
    \* across runs
    file, preFile, run, prev

env == <<indexExists, launchable, writable, pageScript, initialDom, render, faultAt>>
runState == <<pc, session, browser, page, dom, elapsed, waitHandle, shot, failed,
              log, spawned, pagesOpened, writes, stdout, exitCode, mutations>>
cross == <<file, preFile, run, prev>>
vars == <<env, runState, cross>>

NoDom == [e \in Elements |-> "absent"]

\* Elements matching '#main-menu' in a DOM.
Matches(d) == {e \in Elements : d[e] # "absent"}

\* page.wait_for_selector resolves the selector to its first match.
FirstMatch(d) == CHOOSE e \in Matches(d) : \A f \in Matches(d) : e <= f

\* wait_for_selector's default state is "visible".
WaitSatisfied(d) == Matches(d) # {} /\ d[FirstMatch(d)] = "visible"

\* A locator is strict: it acts only on a single match, and screenshot
\* waits for that match to be visible.
LocatorReady(d) == \E e \in Elements : Matches(d) = {e} /\ d[e] = "visible"

FreshRun ==
    /\ pc = "start"
    /\ session = "none"
    /\ browser = "none"
    /\ page = FALSE
    /\ dom = NoDom
    /\ elapsed = 0
    /\ waitHandle = 0
    /\ shot = None
    /\ failed = "none"
    /\ log = <<>>
    /\ spawned = 0
    /\ pagesOpened = 0
    /\ writes = <<>>
    /\ stdout = <<>>
    /\ exitCode = -1
    /\ mutations = 0

Init ==
    /\ indexExists \in BOOLEAN
    /\ launchable \in BOOLEAN
    /\ writable \in BOOLEAN
    /\ pageScript \in PageScripts
    /\ initialDom \in [Elements -> ElemStates]
    /\ render \in RenderSet
    /\ faultAt \in Steps \cup {"none"}
    /\ FreshRun
    /\ file \in {Absent, [kind |-> "image", dims |-> <<640, 480>>, run |-> 0]}
    /\ preFile = file
    /\ run = 1
    /\ prev = None

\* An exception raised by the awaited call `step` propagates out of the
\* body of the `async with` block: nothing in main() catches it.
Raise(step) ==
    /\ failed' = step
    /\ log' = Append(log, step)
    /\ pc' = "aexit"

\* line 6: async with async_playwright() as p  (__aenter__)
EnterSession ==
    /\ pc = "start"
    /\ IF faultAt = "session"
       THEN /\ failed' = "session"
            /\ log' = Append(log, "session")
            /\ pc' = "exit"
            /\ UNCHANGED session
       ELSE /\ session' = "active"
            /\ log' = Append(log, "session")
            /\ pc' = "launch"
            /\ UNCHANGED failed
    /\ UNCHANGED <<browser, page, dom, elapsed, waitHandle, shot, spawned,
                   pagesOpened, writes, stdout, exitCode>>
    /\ UNCHANGED <<env, cross, mutations>>

\* line 7: browser = await p.chromium.launch()
Launch ==
    /\ pc = "launch"
    /\ IF faultAt = "launch" \/ ~launchable
       THEN Raise("launch") /\ UNCHANGED <<browser, spawned>>
       ELSE /\ browser' = "running"
            /\ spawned' = spawned + 1
            /\ log' = Append(log, "launch")
            /\ pc' = "new_page"
            /\ UNCHANGED failed
    /\ UNCHANGED <<session, page, dom, elapsed, waitHandle, shot,
                   pagesOpened, writes, stdout, exitCode>>
    /\ UNCHANGED <<env, cross, mutations>>

\* line 8: page = await browser.new_page()
NewPage ==
    /\ pc = "new_page"
    /\ IF faultAt = "new_page"
       THEN Raise("new_page") /\ UNCHANGED <<page, pagesOpened>>
       ELSE /\ page' = TRUE
            /\ pagesOpened' = pagesOpened + 1
            /\ log' = Append(log, "new_page")
            /\ pc' = "goto"
            /\ UNCHANGED failed
    /\ UNCHANGED <<session, browser, dom, elapsed, waitHandle, shot,
                   spawned, writes, stdout, exitCode>>
    /\ UNCHANGED <<env, cross, mutations>>

\* Mutant: navigation that does not fail on a missing file.
Goto_NoExistenceCheck ==
    /\ pc = "goto"
    /\ IF faultAt = "goto"
       THEN Raise("goto") /\ UNCHANGED <<dom, elapsed>>
       ELSE /\ dom' = IF indexExists THEN initialDom ELSE NoDom
            /\ elapsed' = 0
            /\ log' = Append(log, "goto")
            /\ pc' = "wait"
            /\ UNCHANGED failed
    /\ UNCHANGED <<session, browser, page, waitHandle, shot, spawned,
                   pagesOpened, writes, stdout, exitCode>>
    /\ UNCHANGED <<env, cross, mutations>>

\* lines 12-14: await page.goto(f'file://{os.path.abspath("index.html")}')
Goto ==
    /\ pc = "goto"
    /\ IF faultAt = "goto" \/ ~indexExists
       THEN Raise("goto") /\ UNCHANGED <<dom, elapsed>>
       ELSE /\ dom' = initialDom
            /\ elapsed' = 0
            /\ log' = Append(log, "goto")
            /\ pc' = "wait"
            /\ UNCHANGED failed
    /\ UNCHANGED <<session, browser, page, waitHandle, shot, spawned,
                   pagesOpened, writes, stdout, exitCode>>
    /\ UNCHANGED <<env, cross, mutations>>

\* line 17: await page.wait_for_selector('#main-menu') found the first match
\* visible; the handle it returns is dropped by the script.
WaitVisible ==
    /\ pc = "wait"
    /\ faultAt # "wait"
    /\ WaitSatisfied(dom)
    /\ waitHandle' = FirstMatch(dom)
    /\ elapsed' = 0
    /\ log' = Append(log, "wait")
    /\ pc' = "screenshot"
    /\ UNCHANGED <<session, browser, page, dom, shot, failed, spawned,
                   pagesOpened, writes, stdout, exitCode>>
    /\ UNCHANGED <<env, cross, mutations>>

\* Mutant: the wait gives up without the timeout having elapsed.
WaitTimeout_Early ==
    /\ pc = "wait"
    /\ faultAt # "wait"
    /\ ~WaitSatisfied(dom)
    /\ Raise("wait")
    /\ UNCHANGED <<session, browser, page, dom, elapsed, waitHandle, shot,
                   spawned, pagesOpened, writes, stdout, exitCode>>
    /\ UNCHANGED <<env, cross, mutations>>

\* Mutant: the wait is retried when it times out.
WaitTimeout_Retry ==
    /\ pc = "wait"
    /\ faultAt # "wait"
    /\ elapsed = DefaultTimeout
    /\ elapsed' = 0
    /\ log' = Append(log, "wait")
    /\ UNCHANGED <<pc, failed>>
    /\ UNCHANGED <<session, browser, page, dom, waitHandle, shot,
                   spawned, pagesOpened, writes, stdout, exitCode>>
    /\ UNCHANGED <<env, cross, mutations>>

\* Mutant: wait_for_selector(..., timeout=0), a wait without a timeout.
WaitTimeout_Disabled ==
    /\ FALSE
    /\ UNCHANGED vars

\* line 17: no timeout argument is passed, so the wait gives up with a
\* TimeoutError when the library's default timeout has elapsed.
WaitTimeout ==
    /\ pc = "wait"
    /\ faultAt # "wait"
    /\ elapsed = DefaultTimeout
    /\ Raise("wait")
    /\ UNCHANGED <<session, browser, page, dom, elapsed, waitHandle, shot,
                   spawned, pagesOpened, writes, stdout, exitCode>>
    /\ UNCHANGED <<env, cross, mutations>>

\* line 17: the wait fails for another reason than the timeout.
WaitFault ==
    /\ pc = "wait"
    /\ faultAt = "wait"
    /\ Raise("wait")
    /\ UNCHANGED <<session, browser, page, dom, elapsed, waitHandle, shot,
                   spawned, pagesOpened, writes, stdout, exitCode>>
    /\ UNCHANGED <<env, cross, mutations>>

\* lines 17 and 21: time passes while an awaited call polls the page for a
\* condition that does not hold yet.
Tick ==
    /\ elapsed < DefaultTimeout
    /\ \/ pc = "wait" /\ faultAt # "wait" /\ ~WaitSatisfied(dom)
       \/ pc = "screenshot" /\ faultAt # "screenshot"
          /\ Cardinality(Matches(dom)) <= 1 /\ ~LocatorReady(dom)
    /\ elapsed' = elapsed + 1
    /\ UNCHANGED <<pc, session, browser, page, dom, waitHandle, shot, failed,
                   log, spawned, pagesOpened, writes, stdout, exitCode>>
    /\ UNCHANGED <<env, cross, mutations>>

\* The image locator.screenshot(path=...) stores: the element's bounding box.
Image(e) == [kind |-> "image", dims |-> render[e], run |-> run]

\* Mutant: the screenshot is taken but no path is given, so nothing is stored.
ScreenshotOk_NoPath ==
    /\ pc = "screenshot"
    /\ faultAt # "screenshot"
    /\ writable
    /\ LocatorReady(dom)
    /\ \E e \in Matches(dom) :
          shot' = [kind |-> "shot", elem |-> e, state |-> dom[e],
                   matches |-> Matches(dom)]
    /\ elapsed' = 0
    /\ log' = Append(log, "screenshot")
    /\ pc' = "print"
    /\ UNCHANGED <<session, browser, page, dom, waitHandle, failed, spawned,
                   pagesOpened, stdout, exitCode, writes>>
    /\ UNCHANGED <<env, cross, mutations>>

\* Mutant: an existing reset-button.png is kept instead of overwritten.
ScreenshotOk_NoOverwrite ==
    /\ pc = "screenshot"
    /\ faultAt # "screenshot"
    /\ writable
    /\ LocatorReady(dom)
    /\ \E e \in Matches(dom) :
          /\ shot' = [kind |-> "shot", elem |-> e, state |-> dom[e],
                      matches |-> Matches(dom)]
          /\ file' = IF file = Absent THEN Image(e) ELSE file
    /\ writes' = Append(writes, screenshot_path)
    /\ elapsed' = 0
    /\ log' = Append(log, "screenshot")
    /\ pc' = "print"
    /\ UNCHANGED <<session, browser, page, dom, waitHandle, failed, spawned,
                   pagesOpened, stdout, exitCode>>
    /\ UNCHANGED <<env, preFile, run, prev, mutations>>

\* Mutant: the first match is captured as it is, without the locator's
\* strictness and visibility checks.
ScreenshotOk_NoActionability ==
    /\ pc = "screenshot"
    /\ faultAt # "screenshot"
    /\ writable
    /\ Matches(dom) # {}
    /\ shot' = [kind |-> "shot", elem |-> FirstMatch(dom),
                state |-> dom[FirstMatch(dom)], matches |-> Matches(dom)]
    /\ file' = Image(FirstMatch(dom))
    /\ writes' = Append(writes, screenshot_path)
    /\ elapsed' = 0
    /\ log' = Append(log, "screenshot")
    /\ pc' = "print"
    /\ UNCHANGED <<session, browser, page, dom, waitHandle, failed, spawned,
                   pagesOpened, stdout, exitCode>>
    /\ UNCHANGED <<env, preFile, run, prev, mutations>>

\* lines 20-21: await page.locator('#main-menu').screenshot(path=screenshot_path)
\* The locator resolves the selector anew, captures its single visible match
\* and writes the image over whatever the path holds.
ScreenshotOk ==
    /\ pc = "screenshot"
    /\ faultAt # "screenshot"
    /\ writable
    /\ LocatorReady(dom)
    /\ \E e \in Matches(dom) :
          /\ shot' = [kind |-> "shot", elem |-> e, state |-> dom[e],
                      matches |-> Matches(dom)]
          /\ file' = Image(e)
    /\ writes' = Append(writes, screenshot_path)
    /\ elapsed' = 0
    /\ log' = Append(log, "screenshot")
    /\ pc' = "print"
    /\ UNCHANGED <<session, browser, page, dom, waitHandle, failed, spawned,
                   pagesOpened, stdout, exitCode>>
    /\ UNCHANGED <<env, preFile, run, prev, mutations>>

\* line 21 failing: an engine fault, a strict-mode violation (several
\* matches), the locator's own timeout (no visible match), or the write
\* being refused; the file is left as it was.
ScreenshotFail ==
    /\ pc = "screenshot"
    /\ \/ faultAt = "screenshot"
       \/ Cardinality(Matches(dom)) > 1
       \/ ~LocatorReady(dom) /\ elapsed = DefaultTimeout
       \/ LocatorReady(dom) /\ ~writable
    /\ Raise("screenshot")
    /\ UNCHANGED <<session, browser, page, dom, elapsed, waitHandle, shot,
                   spawned, pagesOpened, writes, stdout, exitCode>>
    /\ UNCHANGED <<env, cross, mutations>>

\* Mutant: the confirmation is printed twice.
PrintConfirmation_Twice ==
    /\ pc = "print"
    /\ IF faultAt = "print"
       THEN Raise("print") /\ UNCHANGED stdout
       ELSE /\ stdout' = Append(Append(stdout, Message), Message)
            /\ log' = Append(log, "print")
            /\ pc' = "close"
            /\ UNCHANGED failed
    /\ UNCHANGED <<session, browser, page, dom, elapsed, waitHandle, shot,
                   spawned, pagesOpened, writes, exitCode>>
    /\ UNCHANGED <<env, cross, mutations>>

\* line 23: print(f"Screenshot saved to {screenshot_path}")
PrintConfirmation ==
    /\ pc = "print"
    /\ IF faultAt = "print"
       THEN Raise("print") /\ UNCHANGED stdout
       ELSE /\ stdout' = Append(stdout, Message)
            /\ log' = Append(log, "print")
            /\ pc' = "close"
            /\ UNCHANGED failed
    /\ UNCHANGED <<session, browser, page, dom, elapsed, waitHandle, shot,
                   spawned, pagesOpened, writes, exitCode>>
    /\ UNCHANGED <<env, cross, mutations>>

\* line 25: await browser.close()
CloseBrowser ==
    /\ pc = "close"
    /\ IF faultAt = "close"
       THEN Raise("close") /\ UNCHANGED <<browser, page, dom>>
       ELSE /\ browser' = "stopped"
            /\ page' = FALSE
            /\ dom' = NoDom
            /\ log' = Append(log, "close")
            /\ pc' = "aexit"
            /\ UNCHANGED failed
    /\ UNCHANGED <<session, elapsed, waitHandle, shot, spawned, pagesOpened,
                   writes, stdout, exitCode>>
    /\ UNCHANGED <<env, cross, mutations>>

\* Mutant: the driver session is left without stopping the browser (no
\* scoped block around the body).
ExitSession_NoTeardown ==
    /\ pc = "aexit"
    /\ session' = "stopped"
    /\ pc' = "exit"
    /\ UNCHANGED <<browser, page, dom, elapsed, waitHandle, shot, failed, log,
                   spawned, pagesOpened, writes, stdout, exitCode>>
    /\ UNCHANGED <<env, cross, mutations>>

\* line 6: leaving the `async with` block (__aexit__), on return and on an
\* exception alike: the driver is stopped and takes its browser with it.
ExitSession ==
    /\ pc = "aexit"
    /\ session' = "stopped"
    /\ browser' = IF browser = "running" THEN "stopped" ELSE browser
    /\ page' = FALSE
    /\ dom' = NoDom
    /\ pc' = "exit"
    /\ UNCHANGED <<elapsed, waitHandle, shot, failed, log, spawned,
                   pagesOpened, writes, stdout, exitCode>>
    /\ UNCHANGED <<env, cross, mutations>>

\* Mutant: the exception is swallowed at top level and the status is 0.
ProcessExit_AlwaysZero ==
    /\ pc = "exit"
    /\ exitCode' = 0
    /\ pc' = "done"
    /\ UNCHANGED <<session, browser, page, dom, elapsed, waitHandle, shot,
                   failed, log, spawned, pagesOpened, writes, stdout>>
    /\ UNCHANGED <<env, cross, mutations>>

\* lines 27-28: asyncio.run(main()) returns, or re-raises what main() raised
\* and the interpreter exits with status 1.
ProcessExit ==
    /\ pc = "exit"
    /\ exitCode' = IF failed = "none" THEN 0 ELSE 1
    /\ pc' = "done"
    /\ UNCHANGED <<session, browser, page, dom, elapsed, waitHandle, shot,
                   failed, log, spawned, pagesOpened, writes, stdout>>
    /\ UNCHANGED <<env, cross, mutations>>

\* The page's own scripts change #main-menu while the page is open.
PageMutates ==
    /\ pc \in {"wait", "screenshot"}
    /\ pageScript # "none"
    /\ mutations < MaxMutations
    /\ mutations' = mutations + 1
    /\ \E e \in Elements, s \in ElemStates :
          /\ dom[e] # s
          /\ pageScript = "reveal" => dom[e] = "hidden" /\ s = "visible"
          /\ dom' = [dom EXCEPT ![e] = s]
    /\ UNCHANGED <<pc, session, browser, page, elapsed, waitHandle, shot,
                   failed, log, spawned, pagesOpened, writes, stdout, exitCode>>
    /\ UNCHANGED <<env, cross>>

\* lines 27-28: the script is started again; a new process shares nothing
\* with the previous one but the working directory.
Rerun ==
    /\ pc = "done"
    /\ run < MaxRuns
    /\ prev' = [kind |-> "run", exitCode |-> exitCode, shot |-> shot, file |-> file]
    /\ preFile' = file
    /\ run' = run + 1
    /\ pc' = "start"
    /\ session' = "none"
    /\ browser' = "none"
    /\ page' = FALSE
    /\ dom' = NoDom
    /\ elapsed' = 0
    /\ waitHandle' = 0
    /\ shot' = None
    /\ failed' = "none"
    /\ log' = <<>>
    /\ spawned' = 0
    /\ pagesOpened' = 0
    /\ writes' = <<>>
    /\ stdout' = <<>>
    /\ exitCode' = -1
    /\ mutations' = 0
    /\ UNCHANGED <<env, file>>

Next ==
    \/ EnterSession
    \/ Launch
    \/ NewPage
    \/ Goto
    \/ WaitVisible
    \/ WaitTimeout
    \/ WaitFault
    \/ Tick
    \/ ScreenshotOk
    \/ ScreenshotFail
    \/ PrintConfirmation
    \/ CloseBrowser
    \/ ExitSession
    \/ ProcessExit
    \/ PageMutates
    \/ Rerun

Spec == Init /\ [][Next]_vars

\* The event loop resumes main() after each awaited call completes or
\* fails, and time passes; the page's scripts and a second invocation are
\* under no obligation.
Fairness ==
    /\ WF_vars(EnterSession)
    /\ WF_vars(Launch)
    /\ WF_vars(NewPage)
    /\ WF_vars(Goto)
    /\ WF_vars(WaitVisible)
    /\ WF_vars(WaitTimeout)
    /\ WF_vars(WaitFault)
    /\ WF_vars(Tick)
    /\ WF_vars(ScreenshotOk)
    /\ WF_vars(ScreenshotFail)
    /\ WF_vars(PrintConfirmation)
    /\ WF_vars(CloseBrowser)
    /\ WF_vars(ExitSession)
    /\ WF_vars(ProcessExit)

FairSpec == Init /\ [][Next]_vars /\ Fairness

\* ------------------------------------------------------------ properties

IsPrefix(s, t) == Len(s) <= Len(t) /\ \A i \in 1..Len(s) : s[i] = t[i]

\* The position of main() before its i-th awaited call.
PcBefore(i) == IF i = 1 THEN "start" ELSE StepOrder[i]

Terminated == pc = "done"

Written == writes = <<screenshot_path>> /\ file.kind = "image" /\ file.run = run

Printed == \E i \in 1..Len(stdout) :
              \E j \in 1..Len(stdout[i]) : stdout[i][j] = screenshot_path

GoodEnv == indexExists /\ launchable /\ writable /\ faultAt = "none"

\* A valid document has one element with id main-menu; its scripts at most
\* reveal it.
ValidPage ==
    /\ pageScript \in {"none", "reveal"}
    /\ Cardinality(Matches(initialDom)) = 1

\* No element with id main-menu is ever visible.
NeverVisible ==
    /\ pageScript = "none"
    /\ \A e \in Elements : initialDom[e] # "visible"

\* C1: in every terminal state, whichever step failed, the browser process
\* the run spawned is no longer running.
C1_BrowserStopped ==
    Terminated => browser # "running" /\ session # "active"

C1_Witness ==
    Terminated /\ failed \in {"new_page", "goto", "wait", "screenshot", "print", "close"}
               /\ spawned = 1 /\ browser = "stopped"

\* C2: with index.html present and valid, a launchable browser, a writable
\* output path and #main-menu visible within the timeout, the run eventually
\* has written reset-button.png, printed a line naming it and exited 0.
C2_Success ==
    (/\ GoodEnv
     /\ ValidPage
     /\ \/ pc = "start" /\ WaitSatisfied(initialDom)
        \/ pc = "wait" /\ WaitSatisfied(dom) /\ elapsed < DefaultTimeout)
    ~> (Terminated /\ exitCode = 0 /\ Written /\ Printed)

C2_Witness ==
    /\ GoodEnv /\ ValidPage /\ pageScript = "reveal"
    /\ ~WaitSatisfied(initialDom)
    /\ Terminated /\ exitCode = 0 /\ Written /\ Printed

\* C3: without index.html the run never gets past navigation: no visibility
\* wait, no screenshot; reset-button.png stays as it was before the run; the
\* exit status is non-zero, and the failing step is the navigation when the
\* steps before it succeed.
C3_MissingInput ==
    ~indexExists =>
        /\ pc \notin {"wait", "screenshot", "print", "close"}
        /\ shot = None
        /\ writes = <<>>
        /\ file = preFile
        /\ Terminated =>
              /\ exitCode # 0
              /\ failed \in {"session", "launch", "new_page", "goto"}
              /\ (launchable /\ faultAt \notin {"session", "launch", "new_page"})
                    => failed = "goto"

C3_Witness ==
    ~indexExists /\ Terminated /\ failed = "goto" /\ exitCode = 1
                 /\ preFile.kind = "image" /\ file = preFile

\* C4: when #main-menu never becomes visible (and the steps before the
\* wait succeed), the run fails in the visibility wait, exactly when the
\* default timeout has elapsed, takes no screenshot and exits non-zero.
C4_VisibilityTimeout ==
    (/\ NeverVisible
     /\ indexExists
     /\ launchable
     /\ faultAt \notin {"session", "launch", "new_page", "goto", "wait"})
    => /\ pc \notin {"screenshot", "print", "close"}
       /\ shot = None
       /\ failed # "none" => failed = "wait" /\ elapsed = DefaultTimeout
       /\ Terminated => failed = "wait" /\ exitCode # 0

C4_Witness ==
    /\ NeverVisible /\ faultAt = "none"
    /\ Terminated /\ failed = "wait" /\ elapsed = DefaultTimeout /\ exitCode = 1

\* C5 as stated: a run that ends with a non-zero status has neither written
\* reset-button.png nor printed the confirmation.
C5_NoPartialSuccess ==
    Terminated =>
        /\ exitCode # 0 => writes = <<>> /\ stdout = <<>>
        /\ (writes # <<>> /\ stdout # <<>>) => exitCode = 0

\* C5 amended: a run that fails at or before the screenshot has written and
\* printed nothing; a run whose print fails has written the file and printed
\* nothing; a run whose browser.close() fails has written the file and
\* printed the message; all three exit non-zero, and only a run in which no
\* step failed exits 0.
C5_FailureLeaves ==
    Terminated =>
        /\ failed \in {"session", "launch", "new_page", "goto", "wait", "screenshot"}
              => exitCode # 0 /\ writes = <<>> /\ stdout = <<>> /\ file = preFile
        /\ failed = "print"
              => exitCode # 0 /\ Written /\ stdout = <<>>
        /\ failed = "close"
              => exitCode # 0 /\ Written /\ stdout = <<Message>>
        /\ failed = "none"
              => exitCode = 0 /\ Written /\ stdout = <<Message>>

C5_Witness ==
    Terminated /\ failed = "close" /\ exitCode = 1 /\ Written /\ Printed

\* C6: a successful run leaves reset-button.png holding exactly the image
\* this run took, whatever the path held before; two successive successful
\* runs on the same rendering of the same element leave images of the same
\* dimensions.
C6_Idempotent ==
    (Terminated /\ exitCode = 0) =>
        /\ file = Image(shot.elem)
        /\ (prev # None /\ prev.exitCode = 0 /\ prev.shot.elem = shot.elem)
              => /\ prev.file.dims = file.dims
                 /\ prev.file.run = run - 1
                 /\ preFile = prev.file

C6_Witness ==
    /\ Terminated /\ exitCode = 0 /\ run = 2
    /\ prev # None /\ prev.exitCode = 0 /\ prev.shot.elem = shot.elem
    /\ file.dims = prev.file.dims /\ file # preFile

\* C7: the steps performed in a run are a prefix of the fixed order, each at
\* most once; a step is begun only when all the steps before it have
\* completed without failure; a failed step is the last step performed.
C7_Linear ==
    /\ IsPrefix(log, StepOrder)
    /\ \A i \in 1..Len(StepOrder) :
          pc = PcBefore(i) => Len(log) = i - 1 /\ failed = "none"
    /\ failed # "none" =>
          /\ pc \in {"aexit", "exit", "done"}
          /\ log # <<>>
          /\ log[Len(log)] = failed

C7_Witness ==
    Terminated /\ failed = "wait" /\ log = <<"session", "launch", "new_page", "goto", "wait">>

\* C8: at any moment of a run at most one browser has been spawned, one
\* page opened, one file written (reset-button.png) and one line printed; a
\* successful run has done exactly one of each.
C8_BoundedEffects ==
    /\ spawned <= 1
    /\ pagesOpened <= 1
    /\ Len(writes) <= 1
    /\ \A i \in 1..Len(writes) : writes[i] = screenshot_path
    /\ Len(stdout) <= 1
    /\ (Terminated /\ exitCode = 0) =>
          spawned = 1 /\ pagesOpened = 1 /\ Len(writes) = 1 /\ Len(stdout) = 1

C8_Witness ==
    Terminated /\ exitCode = 0 /\ spawned = 1 /\ pagesOpened = 1
               /\ writes = <<screenshot_path>> /\ stdout = <<Message>>

\* C9: every run that has not terminated eventually terminates, with exit
\* status 0 or 1, the driver session released and no browser running.
C9_Terminates ==
    (pc # "done") ~>
        (Terminated /\ exitCode \in {0, 1} /\ session # "active" /\ browser # "running")

C9_Witness ==
    Terminated /\ failed = "wait" /\ elapsed = DefaultTimeout
               /\ session = "stopped" /\ browser = "stopped"

\* C10 as stated: the element the screenshot captures is the element the
\* visibility wait found, and it is visible when captured.
C10_SameElement ==
    shot # None => shot.elem = waitHandle /\ shot.state = "visible"

\* C10 amended: the element the screenshot captures is the one the locator
\* resolves when the screenshot is taken: the only element matching
\* #main-menu at that moment, and visible at that moment; it is taken after
\* a visibility wait that succeeded, on whichever element that was.
C10_LocatorElement ==
    shot # None =>
        /\ shot.state = "visible"
        /\ shot.matches = {shot.elem}
        /\ waitHandle \in Elements

C10_Witness ==
    shot # None /\ shot.elem # waitHandle /\ shot.state = "visible"

====
